---- MODULE Spec2Model ----
(***************************************************************************)
(* Model of src/src/main.rs (unawareness): the slot parser and renderer,   *)
(* the necrodancer.xml loader, the UI message handler and the <characters> *)
(* element builder.                                                        *)
(*                                                                         *)
(* Conventions.  Option<T> is a sequence of length at most one: None is    *)
(* <<>> and Some(v) is <<v>>.  Result<T, E> is a record with a boolean     *)
(* field ok and either val or err.  Vec indices are 0-based in the source  *)
(* and kept 0-based in current_character; sequences are 1-based, so the    *)
(* source's characters[i] is characters[i + 1] here.                       *)
(*                                                                         *)
(* Two history variables record what update was given: last is the message  *)
(* it handled last (the one line 257 prints), and round_trip is Some while  *)
(* the messages handled last are CurseSlot(s, true), then possibly          *)
(* CurseSlot(s, false): it keeps s, the character, the curses that          *)
(* character had before CurseSlot(s, true), and whether the second message  *)
(* has been handled.                                                       *)
(*                                                                         *)
(* An XML element is a record.  The root maps each of the two tag names    *)
(* the loader asks for to get_child's answer (the first child of that      *)
(* name, or None).  The documents drawn carry no flyaway attribute and no  *)
(* text, so an item's name is its id and its image is empty.               *)
(***************************************************************************)
EXTENDS Naturals, Sequences, FiniteSets, TLC

VARIABLES phase, root, items, characters, current_character, menu_location,
          err, last, round_trip, new_chars, reloaded

vars == <<phase, root, items, characters, current_character, menu_location,
          err, last, round_trip, new_chars, reloaded>>

---------------------------------------------------------------------------
(* Bounds of the documents and messages drawn. *)

MaxItems == 2

MaxChars == 2

MaxEquip == 3

MaxSlots == 2

---------------------------------------------------------------------------
(* Option and Result. *)

None == <<>>

Some(v) == <<v>>

Ok(v) == [ok |-> TRUE, val |-> v]

Err(e) == [ok |-> FALSE, err |-> e]

BadNecroXML(d) == [kind |-> "BadNecroXML", desc |-> "Malformed necrodancer.xml: " \o d]

NoError == [kind |-> "None", desc |-> ""]

---------------------------------------------------------------------------
(* Slot: its variants in the order of Slot::all(), parsing and rendering. *)

SlotAll ==
    <<"Shovel", "Weapon", "Body", "Head", "Feet", "Torch", "Ring", "Spell",
      "Action", "Misc", "Other">>

Slot == {SlotAll[k] : k \in 1..Len(SlotAll)}

(* from_str with the bomb alternative of line 83 left out. *)
FromStrDropsBomb(s) ==
    CASE s = "shovel" -> Ok("Shovel")
      [] s = "weapon" -> Ok("Weapon")
      [] s = "head" -> Ok("Head")
      [] s = "feet" -> Ok("Feet")
      [] s = "body" -> Ok("Body")
      [] s = "ring" -> Ok("Ring")
      [] s = "spell" -> Ok("Spell")
      [] s = "torch" -> Ok("Torch")
      [] s = "action" -> Ok("Action")
      [] s = "misc" -> Ok("Misc")
      [] s = "hud" -> Ok("Other")
      [] OTHER -> Err("()")

(* from_str with an arm that also takes the rendering of Slot::Other. *)
FromStrTakesOther(s) ==
    CASE s = "shovel" -> Ok("Shovel")
      [] s = "weapon" -> Ok("Weapon")
      [] s = "head" -> Ok("Head")
      [] s = "feet" -> Ok("Feet")
      [] s = "body" -> Ok("Body")
      [] s = "ring" -> Ok("Ring")
      [] s = "spell" -> Ok("Spell")
      [] s = "torch" -> Ok("Torch")
      [] s = "action" -> Ok("Action")
      [] s = "misc" -> Ok("Misc")
      [] s \in {"hud", "bomb", "other"} -> Ok("Other")
      [] OTHER -> Err("()")

(* Slot::from_str. *)
FromStr(s) ==
    CASE s = "shovel" -> Ok("Shovel")
      [] s = "weapon" -> Ok("Weapon")
      [] s = "head" -> Ok("Head")
      [] s = "feet" -> Ok("Feet")
      [] s = "body" -> Ok("Body")
      [] s = "ring" -> Ok("Ring")
      [] s = "spell" -> Ok("Spell")
      [] s = "torch" -> Ok("Torch")
      [] s = "action" -> Ok("Action")
      [] s = "misc" -> Ok("Misc")
      [] s \in {"hud", "bomb"} -> Ok("Other")
      [] OTHER -> Err("()")

(* Slot's Display. *)
Display(slot) ==
    CASE slot = "Shovel" -> "shovel"
      [] slot = "Weapon" -> "weapon"
      [] slot = "Head" -> "head"
      [] slot = "Feet" -> "feet"
      [] slot = "Body" -> "body"
      [] slot = "Ring" -> "ring"
      [] slot = "Spell" -> "spell"
      [] slot = "Torch" -> "torch"
      [] slot = "Action" -> "action"
      [] slot = "Misc" -> "misc"
      [] slot = "Other" -> "other"

---------------------------------------------------------------------------
(* load_necrodancer_xml, from the parsed root on. *)

GetChild(e, name) ==
    CASE name = "items" -> e.items
      [] name = "characters" -> e.characters
      [] name = "initial_equipment" -> e.initial_equipment

Names ==
    [id \in {"0", "1", "2", "3", "4", "5", "6", "7", "8", "9", "10", "11",
             "12", "13", "14"} |->
        CASE id = "0" -> "Cadence"
          [] id = "1" -> "Melody"
          [] id = "2" -> "Aria"
          [] id = "3" -> "Dorian"
          [] id = "4" -> "Eli"
          [] id = "5" -> "Monk"
          [] id = "6" -> "Dove"
          [] id = "7" -> "Coda"
          [] id = "8" -> "Bolt"
          [] id = "9" -> "Bard"
          [] id = "10" -> "Nocturna"
          [] id = "11" -> "Diamond"
          [] id = "12" -> "Mary"
          [] id = "13" -> "Tempo"
          [] id = "14" -> "Reaper"]

(* The items closure with a fixed string in place of the tag name. *)
LoadItemSharedId(i) ==
    LET slot == IF i.slot # None
                THEN LET p == FromStr(i.slot[1])
                     IN  IF p.ok THEN p
                         ELSE Err(BadNecroXML("bad item slot: " \o i.slot[1]))
                ELSE Ok("Other")
    IN  IF slot.ok
        THEN Ok([id |-> "item", name |-> "item", slot |-> slot.val, image |-> ""])
        ELSE slot

(* The closure of lines 368-390: one <items> child to one Item. *)
LoadItem(i) ==
    LET id == i.name
        flyaway == id
        name == flyaway
        slot == IF i.slot # None
                THEN LET p == FromStr(i.slot[1])
                     IN  IF p.ok THEN p
                         ELSE Err(BadNecroXML("bad item slot: " \o i.slot[1]))
                ELSE Ok("Other")
    IN  IF slot.ok
        THEN Ok([id |-> id, name |-> name, slot |-> slot.val, image |-> ""])
        ELSE slot

(* .map(closure).collect::<Result<Vec<_>, _>>() of lines 366-391: the       *)
(* children are converted in order and the first Err ends the collection.  *)
RECURSIVE CollectItems(_, _)
CollectItems(children, acc) ==
    IF children = <<>> THEN Ok(acc)
    ELSE LET r == LoadItem(Head(children))
         IN  IF r.ok THEN CollectItems(Tail(children), Append(acc, r.val))
             ELSE r

(* The equipment loop with items.insert(0, ..) in place of items.push(..). *)
RECURSIVE LoadEquipmentPrepends(_, _, _)
LoadEquipmentPrepends(children, its, curses) ==
    IF children = <<>> THEN Ok([items |-> its, curses |-> curses])
    ELSE LET x == Head(children)
         IN  IF x.name = "item"
             THEN IF x.type = None
                  THEN Err(BadNecroXML("item missing type attr"))
                  ELSE LoadEquipmentPrepends(Tail(children), <<x.type[1]>> \o its, curses)
             ELSE IF x.name = "cursed"
             THEN IF x.slot = None
                  THEN Err(BadNecroXML("cursed missing slot attr"))
                  ELSE LET p == FromStr(x.slot[1])
                       IN  IF p.ok
                           THEN LoadEquipmentPrepends(Tail(children), its, curses \cup {p.val})
                           ELSE Err(BadNecroXML("bad cursed slot"))
             ELSE Err(BadNecroXML("bad initial equipment"))

(* The loop of lines 429-452 over the children of <initial_equipment>. *)
RECURSIVE LoadEquipment(_, _, _)
LoadEquipment(children, its, curses) ==
    IF children = <<>> THEN Ok([items |-> its, curses |-> curses])
    ELSE LET x == Head(children)
         IN  IF x.name = "item"
             THEN IF x.type = None
                  THEN Err(BadNecroXML("item missing type attr"))
                  ELSE LoadEquipment(Tail(children), Append(its, x.type[1]), curses)
             ELSE IF x.name = "cursed"
             THEN IF x.slot = None
                  THEN Err(BadNecroXML("cursed missing slot attr"))
                  ELSE LET p == FromStr(x.slot[1])
                       IN  IF p.ok
                           THEN LoadEquipment(Tail(children), its, curses \cup {p.val})
                           ELSE Err(BadNecroXML("bad cursed slot"))
             ELSE Err(BadNecroXML("bad initial equipment"))

(* The characters closure with the id attribute read before the tag test. *)
LoadCharacterIdFirst(c) ==
    IF c.id = None THEN Err(BadNecroXML("character missing id attr"))
    ELSE IF c.name # "character" THEN Err(BadNecroXML("bad character tag"))
    ELSE LET id == c.id[1]
             name == IF id \in DOMAIN Names THEN Names[id] ELSE id
             e == GetChild(c, "initial_equipment")
         IN  IF e = None THEN Err(BadNecroXML("missing <initial_equipment>"))
             ELSE LET r == LoadEquipment(e[1], <<>>, {})
                  IN  IF r.ok
                      THEN Ok([id |-> id, name |-> name, items |-> r.val.items,
                               curses |-> r.val.curses])
                      ELSE r

(* The closure of lines 417-459: one <characters> child to one Character. *)
LoadCharacter(c) ==
    IF c.name # "character" THEN Err(BadNecroXML("bad character tag"))
    ELSE IF c.id = None THEN Err(BadNecroXML("character missing id attr"))
    ELSE LET id == c.id[1]
             name == IF id \in DOMAIN Names THEN Names[id] ELSE id
             e == GetChild(c, "initial_equipment")
         IN  IF e = None THEN Err(BadNecroXML("missing <initial_equipment>"))
             ELSE LET r == LoadEquipment(e[1], <<>>, {})
                  IN  IF r.ok
                      THEN Ok([id |-> id, name |-> name, items |-> r.val.items,
                               curses |-> r.val.curses])
                      ELSE r

(* .map(closure).collect::<Result<Vec<_>, _>>() of lines 415-460. *)
RECURSIVE CollectCharacters(_, _)
CollectCharacters(children, acc) ==
    IF children = <<>> THEN Ok(acc)
    ELSE LET r == LoadCharacter(Head(children))
         IN  IF r.ok THEN CollectCharacters(Tail(children), Append(acc, r.val))
             ELSE r

(* load_necrodancer_xml with both sections looked up before any child is read. *)
LoadNecrodancerXmlCharactersFirst(r) ==
    LET characters_e == GetChild(r, "characters")
        items_e == GetChild(r, "items")
    IN  IF characters_e = None THEN Err(BadNecroXML("missing <characters> tag"))
        ELSE IF items_e = None THEN Err(BadNecroXML("missing <items> tag"))
        ELSE LET its == CollectItems(items_e[1], <<>>)
             IN  IF ~its.ok THEN its
                 ELSE LET chs == CollectCharacters(characters_e[1], <<>>)
                      IN  IF ~chs.ok THEN chs
                          ELSE Ok([root |-> r, items |-> its.val,
                                   characters |-> chs.val])

(* load_necrodancer_xml, lines 363-466. *)
LoadNecrodancerXml(r) ==
    LET items_e == GetChild(r, "items")
    IN  IF items_e = None THEN Err(BadNecroXML("missing <items> tag"))
        ELSE LET its == CollectItems(items_e[1], <<>>)
             IN  IF ~its.ok THEN its
                 ELSE LET characters_e == GetChild(r, "characters")
                      IN  IF characters_e = None
                          THEN Err(BadNecroXML("missing <characters> tag"))
                          ELSE LET chs == CollectCharacters(characters_e[1], <<>>)
                               IN  IF ~chs.ok THEN chs
                                   ELSE Ok([root |-> r, items |-> its.val,
                                            characters |-> chs.val])

---------------------------------------------------------------------------
(* character_element: the <characters> element rebuilt from the Character  *)
(* collection.  order[k] is the order in which the HashSet of character k  *)
(* yields its slots, which the source leaves unspecified.                  *)

Perms(S) ==
    {f \in [1..Cardinality(S) -> S] : \A i, j \in DOMAIN f : f[i] = f[j] => i = j}

CurseOrders(chars) ==
    {o \in [DOMAIN chars -> UNION {Perms(chars[k].curses) : k \in DOMAIN chars}] :
        \A k \in DOMAIN chars : o[k] \in Perms(chars[k].curses)}

CharacterElement(chars, order) ==
    [name |-> "characters",
     children |->
        [k \in DOMAIN chars |->
            [name |-> "character",
             id |-> Some(chars[k].id),
             initial_equipment |->
                Some([j \in DOMAIN chars[k].items |->
                        [name |-> "item", type |-> Some(chars[k].items[j]),
                         slot |-> None]]
                     \o
                     [j \in DOMAIN order[k] |->
                        [name |-> "cursed", type |-> None,
                         slot |-> Some(Display(order[k][j]))]])]]]

---------------------------------------------------------------------------
(* The documents drawn. *)

SeqsUpTo(S, n) == UNION {[1..k -> S] : k \in 0..n}

ItemE(tag, slot) == [name |-> tag, slot |-> slot]

EquipE(tag, type, slot) == [name |-> tag, type |-> type, slot |-> slot]

CharE(tag, id, equipment) ==
    [name |-> tag, id |-> id, initial_equipment |-> equipment]

Doc(its, chars) == [items |-> its, characters |-> chars]

TwelveTokens ==
    {"shovel", "weapon", "head", "feet", "body", "ring", "spell", "torch",
     "action", "misc", "hud", "bomb"}

Tokens == TwelveTokens \cup {"other", "Ring", "", "hat"}

ItemElems ==
    {ItemE(t, s) : t \in {"a", "b"}, s \in {None, Some("ring"), Some("other")}}

EquipElems ==
    {EquipE("item", t, None) : t \in {None, Some("a"), Some("b")}}
    \cup {EquipE("cursed", None, s) : s \in {None, Some("ring"), Some("other")}}
    \cup {EquipE("junk", None, None)}

CharElems ==
    {CharE(t, i, e) :
        t \in {"character", "npc"},
        i \in {None, Some("0"), Some("99")},
        e \in {None, Some(<<>>), Some(<<EquipE("cursed", None, Some("ring"))>>),
               Some(<<EquipE("junk", None, None)>>)}}

GoodChar == CharE("character", Some("0"), Some(<<EquipE("item", Some("a"), None)>>))

BadChar == CharE("character", None, None)

(* Documents that vary the <items> section. *)
DocsItems ==
    {Doc(i, c) :
        i \in {None} \cup {Some(s) : s \in SeqsUpTo(ItemElems, MaxItems)},
        c \in {None, Some(<<>>), Some(<<GoodChar>>), Some(<<BadChar>>)}}

(* Documents that vary the <characters> section. *)
DocsChars ==
    {Doc(i, Some(c)) :
        i \in {None, Some(<<>>), Some(<<ItemE("a", None)>>),
               Some(<<ItemE("a", Some("Ring"))>>)},
        c \in SeqsUpTo(CharElems, MaxChars)}

(* Documents that vary one character's <initial_equipment>. *)
DocsEquip ==
    {Doc(Some(<<ItemE("a", Some("bomb"))>>), Some(<<CharE("character", Some("7"), Some(e))>> \o c)) :
        e \in SeqsUpTo(EquipElems, MaxEquip),
        c \in {<<>>, <<BadChar>>}}

(* Documents that vary the two slot attributes over every token. *)
DocsTokens ==
    {Doc(Some(<<ItemE("a", s)>>),
         Some(<<CharE("character", Some("0"), Some(<<EquipE("cursed", None, c)>>))>>)) :
        s \in {None} \cup {Some(t) : t \in Tokens},
        c \in {None} \cup {Some(t) : t \in Tokens}}

DocsLoad == DocsItems \cup DocsChars \cup DocsEquip \cup DocsTokens

(* Documents behind the UI: zero to MaxChars characters, with curses the    *)
(* messages can and cannot toggle, and one document the loader rejects.    *)
CharUI ==
    {CharE("character", Some("0"),
           Some(<<EquipE("item", Some("a"), None), EquipE("cursed", None, Some("shovel"))>>)),
     CharE("character", Some("99"), Some(<<EquipE("cursed", None, Some("bomb"))>>))}

DocsUI ==
    {Doc(Some(<<ItemE("a", Some("ring"))>>), Some(c)) : c \in SeqsUpTo(CharUI, MaxChars)}
    \cup {Doc(Some(<<>>), None)}

---------------------------------------------------------------------------
(* State. *)

NoMenu == [tag |-> "None"]

(* MenuLocation::from_slot and MenuLocation::to_slot. *)
FromSlot(s) ==
    IF s \in {"Weapon", "Other"} THEN [tag |-> s, sub |-> None] ELSE [tag |-> s]

ToSlot(m) == m.tag

NoMsg == [type |-> "None"]

CharPickedMsg(i) == [type |-> "CharPicked", idx |-> i]

SlotPressedMsg(s) == [type |-> "SlotPressed", slot |-> s]

CurseSlotMsg(s, b) == [type |-> "CurseSlot", slot |-> s, on |-> b]

(* The slots whose buttons and checkboxes are pressed. *)
MsgSlots == {SlotAll[k] : k \in 1..MaxSlots}

InitWith(docs) ==
    /\ root \in docs
    /\ phase = "start"
    /\ items = <<>>
    /\ characters = <<>>
    /\ current_character = 0
    /\ menu_location = NoMenu
    /\ err = NoError
    /\ last = NoMsg
    /\ round_trip = None
    /\ new_chars = None
    /\ reloaded = None

Init == InitWith(DocsUI)

InitLoad == InitWith(DocsLoad)

(* main_2: load_necrodancer_xml, then UI::new on success; on failure the   *)
(* error is printed and the process exits.                                 *)
Load ==
    /\ phase = "start"
    /\ LET r == LoadNecrodancerXml(root)
       IN  IF r.ok
           THEN /\ phase' = "running"
                /\ items' = r.val.items
                /\ characters' = r.val.characters
                /\ err' = err
           ELSE /\ phase' = "failed"
                /\ err' = r.err
                /\ UNCHANGED <<items, characters>>
    /\ current_character' = 0
    /\ menu_location' = NoMenu
    /\ UNCHANGED <<root, last, round_trip, new_chars, reloaded>>

(* UI::view indexes characters[current_character] before it builds any     *)
(* widget: out of range, it panics and no message is ever emitted.         *)
ViewRenders == phase = "running" /\ current_character < Len(characters)

ViewPanics ==
    /\ phase = "running"
    /\ ~(current_character < Len(characters))
    /\ phase' = "panicked"
    /\ UNCHANGED <<root, items, characters, current_character, menu_location,
                   err, last, round_trip, new_chars, reloaded>>

(* UI::update, CharPicked(i); the pick list offers the indices of characters. *)
CharPicked ==
    /\ ViewRenders
    /\ \E i \in 0..(Len(characters) - 1) :
        /\ current_character' = i
        /\ last' = CharPickedMsg(i)
    /\ round_trip' = None
    /\ menu_location' = NoMenu
    /\ UNCHANGED <<phase, root, items, characters, err, new_chars, reloaded>>

(* UI::update, SlotPressed(s). *)
SlotPressed ==
    /\ ViewRenders
    /\ \E s \in MsgSlots :
        /\ menu_location' =
              IF menu_location # NoMenu /\ ToSlot(menu_location) = s
              THEN NoMenu
              ELSE FromSlot(s)
        /\ last' = SlotPressedMsg(s)
    /\ round_trip' = None
    /\ UNCHANGED <<phase, root, items, characters, current_character, err,
                   new_chars, reloaded>>

(* Variants of lines 289-293: the remove left out, and clear() in place of remove(&s). *)
ApplyCurseNeverRemoves(curses, s, b) == IF b THEN curses \cup {s} ELSE curses

ApplyCurseClears(curses, s, b) == IF b THEN curses \cup {s} ELSE {}

(* HashSet::insert and HashSet::remove of lines 289-293. *)
ApplyCurse(curses, s, b) == IF b THEN curses \cup {s} ELSE curses \ {s}

(* UI::update, CurseSlot(s, b). *)
CurseSlot ==
    /\ ViewRenders
    /\ \E s \in MsgSlots, b \in BOOLEAN :
        /\ characters' =
              [characters EXCEPT ![current_character + 1].curses =
                  ApplyCurse(@, s, b)]
        /\ last' = CurseSlotMsg(s, b)
        /\ round_trip' =
              IF b
              THEN Some([slot |-> s, character |-> current_character,
                         before |-> characters[current_character + 1].curses,
                         done |-> FALSE])
              ELSE IF round_trip # None /\ ~round_trip[1].done /\ round_trip[1].slot = s
              THEN Some([round_trip[1] EXCEPT !.done = TRUE])
              ELSE None
    /\ UNCHANGED <<phase, root, items, current_character, menu_location, err,
                   new_chars, reloaded>>

(* The write-back of main_2 lines 498-500: character_element on the        *)
(* current characters, and the loader's character rules on its children.   *)
Rebuild ==
    /\ phase = "running"
    /\ \E order \in CurseOrders(characters) :
        LET e == CharacterElement(characters, order)
        IN  /\ new_chars' = Some(e)
            /\ reloaded' = Some(CollectCharacters(e.children, <<>>))
    /\ phase' = "rebuilt"
    /\ UNCHANGED <<root, items, characters, current_character, menu_location,
                   err, last, round_trip>>

Next == Load \/ ViewPanics \/ CharPicked \/ SlotPressed \/ CurseSlot

Spec == Init /\ [][Next]_vars

NextLoad == Load

SpecLoad == InitLoad /\ [][NextLoad]_vars

NextSave == Next \/ Rebuild

SpecSave == Init /\ [][NextSave]_vars

---------------------------------------------------------------------------
(* What the loader is expected to do, stated from the document alone. *)

Loaded == phase = "running"

Failed == phase = "failed"

IsSchemaError(e) == e.kind = "BadNecroXML"

Describes(e, d) == e.desc = "Malformed necrodancer.xml: " \o d

MentionsMissing(e, tag) == Describes(e, "missing <" \o tag \o "> tag")

ItemChildren == IF root.items = None THEN <<>> ELSE root.items[1]

CharChildren == IF root.characters = None THEN <<>> ELSE root.characters[1]

EquipChildren(c) ==
    IF c.initial_equipment = None THEN <<>> ELSE c.initial_equipment[1]

Distinct(seq) == \A j, k \in DOMAIN seq : seq[j] = seq[k] => j = k

RECURSIVE Flatten(_)
Flatten(seqs) == IF seqs = <<>> THEN <<>> ELSE Head(seqs) \o Flatten(Tail(seqs))

(* The mapping of section 4.1, as a table. *)
SlotOfToken ==
    [t \in TwelveTokens |->
        CASE t = "shovel" -> "Shovel"
          [] t = "weapon" -> "Weapon"
          [] t = "head" -> "Head"
          [] t = "feet" -> "Feet"
          [] t = "body" -> "Body"
          [] t = "ring" -> "Ring"
          [] t = "spell" -> "Spell"
          [] t = "torch" -> "Torch"
          [] t = "action" -> "Action"
          [] t = "misc" -> "Misc"
          [] t = "hud" -> "Other"
          [] t = "bomb" -> "Other"]

ItemViolations(i) ==
    IF i.slot # None /\ i.slot[1] \notin TwelveTokens
    THEN <<"bad item slot: " \o i.slot[1]>>
    ELSE <<>>

EquipViolations(x) ==
    CASE x.name = "item" ->
            IF x.type = None THEN <<"item missing type attr">> ELSE <<>>
      [] x.name = "cursed" ->
            IF x.slot = None THEN <<"cursed missing slot attr">>
            ELSE IF x.slot[1] \notin TwelveTokens THEN <<"bad cursed slot">>
            ELSE <<>>
      [] OTHER -> <<"bad initial equipment">>

CharViolations(c) ==
    (IF c.name # "character" THEN <<"bad character tag">> ELSE <<>>)
    \o (IF c.id = None THEN <<"character missing id attr">> ELSE <<>>)
    \o (IF c.initial_equipment = None THEN <<"missing <initial_equipment>">>
        ELSE Flatten([j \in DOMAIN c.initial_equipment[1] |->
                        EquipViolations(c.initial_equipment[1][j])]))

(* Every schema violation of the document, in the loader's processing order. *)
Violations ==
    (IF root.items = None THEN <<"missing <items> tag">>
     ELSE Flatten([k \in DOMAIN root.items[1] |-> ItemViolations(root.items[1][k])]))
    \o (IF root.characters = None THEN <<"missing <characters> tag">>
        ELSE Flatten([k \in DOMAIN root.characters[1] |->
                        CharViolations(root.characters[1][k])]))

(* The type attributes of the <item> children, in document order. *)
ItemTypes(equip) ==
    LET its == SelectSeq(equip, LAMBDA x : x.name = "item")
    IN  [j \in DOMAIN its |-> its[j].type[1]]

CursedTokens(equip) ==
    {equip[j].slot[1] : j \in {i \in DOMAIN equip :
                                  equip[i].name = "cursed" /\ equip[i].slot # None}}

---------------------------------------------------------------------------
(* C1 as stated: CurseSlot(s, true) then CurseSlot(s, false) on the current *)
(* character leaves its curses exactly as they were before both messages,  *)
(* whatever the set held.                                                  *)
C1_RoundTripRestores ==
    (round_trip # None /\ round_trip[1].done) =>
        characters[round_trip[1].character + 1].curses = round_trip[1].before

(* C1, amended: CurseSlot(s, true) then CurseSlot(s, false) on the current  *)
(* character leaves its curses equal to the set before both messages with  *)
(* s taken out: exactly the earlier set when s was not in it, the earlier   *)
(* set without s when it was.                                              *)
C1_RoundTripRemoves ==
    (round_trip # None /\ round_trip[1].done) =>
        /\ last = CurseSlotMsg(round_trip[1].slot, FALSE)
        /\ characters[round_trip[1].character + 1].curses =
              round_trip[1].before \ {round_trip[1].slot}
        /\ round_trip[1].slot \notin round_trip[1].before =>
              characters[round_trip[1].character + 1].curses = round_trip[1].before

C1_Witness ==
    /\ round_trip # None
    /\ round_trip[1].done
    /\ round_trip[1].slot \notin round_trip[1].before
    /\ round_trip[1].before # {}
    /\ characters[round_trip[1].character + 1].curses = round_trip[1].before

(* C2 as stated: the ids of the loaded items are pairwise distinct, for any *)
(* sequence of children under <items>.                                     *)
C2_IdsDistinct ==
    Loaded => Distinct([k \in DOMAIN items |-> items[k].id])

(* C2, amended: each loaded item's id is the tag name of its <items>       *)
(* child, so the ids are pairwise distinct when the tag names of the       *)
(* <items> children are.                                                   *)
C2_IdsDistinctForDistinctTags ==
    Loaded =>
        /\ Len(items) = Len(ItemChildren)
        /\ \A k \in DOMAIN items : items[k].id = ItemChildren[k].name
        /\ Distinct([k \in DOMAIN ItemChildren |-> ItemChildren[k].name]) =>
              Distinct([k \in DOMAIN items |-> items[k].id])

C2_Witness ==
    /\ Loaded
    /\ Len(items) = 2
    /\ items[1].id # items[2].id

(* C3: a document with schema violations yields exactly the error of the   *)
(* first violation in processing order, and no items or characters; a      *)
(* document with none is loaded.                                           *)
C3_FirstErrorOnly ==
    phase # "start" =>
        IF Violations # <<>>
        THEN /\ Failed
             /\ err = BadNecroXML(Head(Violations))
             /\ items = <<>>
             /\ characters = <<>>
        ELSE Loaded /\ err = NoError

C3_Witness ==
    /\ Failed
    /\ Len(Violations) >= 3
    /\ Violations[1] # Violations[2]
    /\ err = BadNecroXML(Violations[1])
    /\ root.characters # None
    /\ Len(root.characters[1]) = 2

(* C4 as stated: a root without <items> fails with a schema error naming   *)
(* items, and a root without <characters> fails with a schema error naming *)
(* characters.                                                             *)
C4_MissingSectionNamed ==
    phase # "start" =>
        /\ root.items = None =>
              Failed /\ IsSchemaError(err) /\ MentionsMissing(err, "items")
        /\ root.characters = None =>
              Failed /\ IsSchemaError(err) /\ MentionsMissing(err, "characters")

(* C4, amended: a root without <items> fails with a schema error naming    *)
(* items; a root without <characters> fails with a schema error, which     *)
(* names characters when <items> is present and each of its children has   *)
(* no slot attribute or one of the twelve tokens.                          *)
C4_MissingSectionNamedInOrder ==
    phase # "start" =>
        /\ root.items = None =>
              Failed /\ IsSchemaError(err) /\ MentionsMissing(err, "items")
        /\ root.characters = None =>
              /\ Failed
              /\ IsSchemaError(err)
              /\ (/\ root.items # None
                  /\ \A k \in DOMAIN ItemChildren :
                        \/ ItemChildren[k].slot = None
                        \/ ItemChildren[k].slot[1] \in TwelveTokens)
                    => MentionsMissing(err, "characters")

C4_Witness ==
    /\ Failed
    /\ root.characters = None
    /\ root.items # None
    /\ Len(ItemChildren) = 2
    /\ ItemChildren[1].slot # None
    /\ MentionsMissing(err, "characters")

(* C5 as stated: each of the 11 canonical tokens, other included, parses   *)
(* and renders back to itself; hud and bomb parse and render as other.     *)
C5_CanonicalRoundTrip ==
    \A k \in DOMAIN ItemChildren :
        LET a == ItemChildren[k].slot
        IN  a # None =>
              /\ a[1] \in {Display(v) : v \in Slot} =>
                    /\ Failed => err # BadNecroXML("bad item slot: " \o a[1])
                    /\ Loaded => Display(items[k].slot) = a[1]
              /\ a[1] \in {"hud", "bomb"} =>
                    /\ Failed => err # BadNecroXML("bad item slot: " \o a[1])
                    /\ Loaded => Display(items[k].slot) = "other"

(* C5, amended: each of the ten tokens shovel, weapon, head, feet, body,   *)
(* ring, spell, torch, action, misc parses and renders back to itself; hud *)
(* and bomb parse and render as other; other itself does not parse.        *)
C5_TenTokenRoundTrip ==
    \A k \in DOMAIN ItemChildren :
        LET a == ItemChildren[k].slot
        IN  a # None =>
              /\ a[1] \in {Display(v) : v \in Slot \ {"Other"}} =>
                    /\ Failed => err # BadNecroXML("bad item slot: " \o a[1])
                    /\ Loaded => Display(items[k].slot) = a[1]
              /\ a[1] \in {"hud", "bomb"} =>
                    /\ Failed => err # BadNecroXML("bad item slot: " \o a[1])
                    /\ Loaded => Display(items[k].slot) = "other"
              /\ (a[1] = "other" /\ phase # "start") => Failed

C5_Witness ==
    /\ Loaded
    /\ ItemChildren # <<>>
    /\ ItemChildren[1].slot = Some("bomb")
    /\ Display(items[1].slot) = "other"
    /\ characters # <<>>
    /\ characters[1].curses = {"Torch"}

(* C6: a slot attribute parses exactly when it is one of the twelve tokens *)
(* and then gives the slot of the table; any other token, as the slot of   *)
(* an <items> child or of a <cursed> element, fails the load with a schema *)
(* error.                                                                  *)
C6_TwelveTokensOnly ==
    phase # "start" =>
        /\ \A k \in DOMAIN ItemChildren :
              LET a == ItemChildren[k].slot
              IN  /\ (a # None /\ a[1] \notin TwelveTokens) =>
                        Failed /\ IsSchemaError(err)
                  /\ (a # None /\ a[1] \in TwelveTokens) =>
                        /\ ~Describes(err, "bad item slot: " \o a[1])
                        /\ Loaded => items[k].slot = SlotOfToken[a[1]]
        /\ \A k \in DOMAIN CharChildren :
              LET toks == CursedTokens(EquipChildren(CharChildren[k]))
              IN  /\ toks \ TwelveTokens # {} => Failed /\ IsSchemaError(err)
                  /\ Loaded =>
                        characters[k].curses = {SlotOfToken[t] : t \in toks}
        /\ (Failed /\ Describes(err, "bad cursed slot")) =>
              \E k \in DOMAIN CharChildren :
                  CursedTokens(EquipChildren(CharChildren[k])) \ TwelveTokens # {}

C6_Witness ==
    /\ Failed
    /\ ItemChildren # <<>>
    /\ ItemChildren[1].slot = Some("hud")
    /\ CharChildren # <<>>
    /\ CursedTokens(EquipChildren(CharChildren[1])) = {"Ring"}
    /\ Describes(err, "bad cursed slot")

(* C7: once loaded, no message changes items or any character's id, name   *)
(* or items; CharPicked and SlotPressed change no curses; CurseSlot(s, b)  *)
(* changes at most whether s is in the curses of the current character.    *)
C7_Frame ==
    [][(Loaded /\ phase' = "running") =>
        /\ items' = items
        /\ root' = root
        /\ DOMAIN characters' = DOMAIN characters
        /\ \A k \in DOMAIN characters :
              /\ characters'[k].id = characters[k].id
              /\ characters'[k].name = characters[k].name
              /\ characters'[k].items = characters[k].items
              /\ last'.type \in {"CharPicked", "SlotPressed"} =>
                    characters'[k].curses = characters[k].curses
              /\ last'.type = "CurseSlot" =>
                    IF k = current_character + 1
                    THEN characters'[k].curses \ {last'.slot}
                            = characters[k].curses \ {last'.slot}
                    ELSE characters'[k].curses = characters[k].curses]_vars

C7_Witness ==
    /\ Loaded
    /\ Len(characters) = 2
    /\ current_character = 1
    /\ last = CurseSlotMsg("Weapon", TRUE)
    /\ characters[1].curses = {"Shovel"}
    /\ characters[2].curses = {"Other", "Weapon"}

(* C8: items has one entry per <items> child, characters one entry per     *)
(* <characters> child, each in document order, and a character's items are *)
(* the type attributes of its <item> children in document order.           *)
C8_DocumentOrder ==
    Loaded =>
        /\ Len(items) = Len(ItemChildren)
        /\ \A k \in DOMAIN items :
              /\ items[k].id = ItemChildren[k].name
              /\ ItemChildren[k].slot # None =>
                    items[k].slot = SlotOfToken[ItemChildren[k].slot[1]]
        /\ Len(characters) = Len(CharChildren)
        /\ \A k \in DOMAIN characters :
              /\ characters[k].id = CharChildren[k].id[1]
              /\ characters[k].items = ItemTypes(EquipChildren(CharChildren[k]))

C8_Witness ==
    /\ Loaded
    /\ CharChildren # <<>>
    /\ Len(EquipChildren(CharChildren[1])) = 3
    /\ EquipChildren(CharChildren[1])[2].name = "cursed"
    /\ characters[1].items = <<"b", "a">>

(* C9: in every running state current_character is a valid index into     *)
(* characters.                                                             *)
C9_IndexValid ==
    Loaded => current_character < Len(characters)

(* C10: the element character_element builds reloads, by the loader's      *)
(* character rules, to characters with the same ids, items and curses.     *)
C10_RebuildReloads ==
    phase = "rebuilt" =>
        /\ reloaded[1].ok
        /\ Len(reloaded[1].val) = Len(characters)
        /\ \A k \in DOMAIN characters :
              /\ reloaded[1].val[k].id = characters[k].id
              /\ reloaded[1].val[k].items = characters[k].items
              /\ reloaded[1].val[k].curses = characters[k].curses

====
